---- MODULE Spec2Model ----
(***************************************************************************)
(* Model of the recursive follow-up analysis engine of diligent            *)
(* (src/main.go): main's loop over the check catalog, analyze and its      *)
(* recursion, executeCommand, truncateOutput and callOpenAI.               *)
(*                                                                         *)
(* Command output is a byte string kept run-length encoded: a sequence of  *)
(* runs [ch, n] with n > 0 and adjacent runs of different bytes, so that   *)
(* an output longer than maxOutputCharacters fits in a state.  All other   *)
(* strings (prompts, commands, descriptions) are TLA+ strings.             *)
(***************************************************************************)
EXTENDS Integers, Sequences, FiniteSets, TLC

VARIABLES
    mainPc,     \* position of main: "start", "loop", "call", "sink", "done", "exit", "panic"
    catalog,    \* the checks main ranges over (checks.MacOS)
    rootDepth,  \* the depth main passes to analyze
    idx,        \* index of the current check of main's range loop
    results,    \* main's results slice
    report,     \* the Report built after the loop (Items = <<>> before)
    stack,      \* call stack of analyze invocations, innermost last
    nodeLog,    \* history: one entry per analyze invocation that returned
    longUsed,   \* history: number of over-limit outputs produced so far
    faults,     \* history: number of failed command runs and API calls so far
    followsLeft, \* verdicts asking for a follow-up the API may still give
    env,        \* what main found at startup: the API key and db.InitDB's error
    sink,       \* the log store and the file report.json
    trunc,      \* truncateOutput on its own: its arguments and its result
    proc        \* executeCommand on its own: the process, the timer, the wait

vars == <<mainPc, catalog, rootDepth, idx, results, report, stack, nodeLog, longUsed,
          faults, followsLeft, env, sink, trunc, proc>>

(***************************************************************************)
(* Program constants                                                       *)
(***************************************************************************)
maxFollowups == 5
maxOutputCharacters == 3000

(***************************************************************************)
(* Bounds of the model                                                     *)
(***************************************************************************)
NumChecks == 2      \* length of the catalog main ranges over
MaxLong == 1        \* commands per run whose output exceeds the limit
MaxFaults == 1      \* failed command runs and API calls per run
MaxFollows == 2     \* verdicts asking for a follow-up per run over the catalog
MaxRootDepth == 6   \* largest starting depth given to analyze directly
MaxStrLen == 4      \* longest string spelled out byte by byte for truncateOutput
MaxWrites == 2      \* chunks of output a command and its descendants write

nil == "nil"

(***************************************************************************)
(* Run-length encoded byte strings                                         *)
(***************************************************************************)
Str(ch, n) == IF n = 0 THEN <<>> ELSE <<[ch |-> ch, n |-> n]>>

RECURSIVE StrLen(_)
StrLen(s) == IF s = <<>> THEN 0 ELSE Head(s).n + StrLen(Tail(s))

\* s[:k] of Go, for 0 <= k <= len(s)
RECURSIVE Slice(_, _)
Slice(s, k) ==
    IF k = 0 \/ s = <<>> THEN <<>>
    ELSE IF Head(s).n <= k THEN <<Head(s)>> \o Slice(Tail(s), k - Head(s).n)
    ELSE <<[ch |-> Head(s).ch, n |-> k]>>

\* s is a prefix of t
RECURSIVE IsPrefix(_, _)
IsPrefix(s, t) ==
    IF s = <<>> THEN TRUE
    ELSE IF t = <<>> THEN FALSE
    ELSE /\ Head(s).ch = Head(t).ch
         /\ IF Len(s) = 1 THEN Head(s).n <= Head(t).n
            ELSE Head(s).n = Head(t).n /\ IsPrefix(Tail(s), Tail(t))

\* the encoding of a string given byte by byte, and back
RECURSIVE Encode(_)
Encode(q) ==
    IF q = <<>> THEN <<>>
    ELSE LET r == Encode(Tail(q))
         IN  IF r # <<>> /\ Head(r).ch = Head(q)
             THEN <<[ch |-> Head(q), n |-> Head(r).n + 1]>> \o Tail(r)
             ELSE <<[ch |-> Head(q), n |-> 1]>> \o r

RECURSIVE Decode(_)
Decode(s) ==
    IF s = <<>> THEN <<>>
    ELSE IF Head(s).n = 1 THEN <<Head(s).ch>> \o Decode(Tail(s))
    ELSE <<Head(s).ch>> \o Decode(<<[ch |-> Head(s).ch, n |-> Head(s).n - 1]>> \o Tail(s))

Min(a, b) == IF a <= b THEN a ELSE b

ShortOutput == Str("o", 2)
LongOutput == Str("x", maxOutputCharacters + 1)

(***************************************************************************)
(* Data types                                                              *)
(***************************************************************************)
\* Check{Command, Prompt}
Check(command, prompt) == [Command |-> command, Prompt |-> prompt]

\* checks.MacOS: a static, ordered list of checks with non-empty commands
checks == [i \in 1..NumChecks |-> Check("c" \o ToString(i), "p" \o ToString(i))]

\* GPTResponse{} zero value
GPTResponse ==
    [Flagged |-> FALSE, Description |-> "", FollowUpPrompt |-> "",
     FollowUpCommand |-> "", Alert |-> ""]

\* AnalysisItem{Prompt: prompt, Command: command}
AnalysisItem(prompt, command) ==
    [Prompt |-> prompt, Command |-> command, Flagged |-> FALSE,
     AnalysisDescription |-> "", Alert |-> "", RawOutput |-> <<>>,
     FollowUps |-> <<>>]

\* Report{Items: results}
Report(items) == [Items |-> items]

(***************************************************************************)
(* Inputs: what the shell command and the OpenAI API can answer            *)
(***************************************************************************)
\* What cmd.CombinedOutput() returns (output, err) and whether the deadline
\* of ctx has passed when ctx.Err() is read.  A command killed by the
\* context has the deadline passed; a command may also finish on its own
\* right before the deadline passes.
ProcErrs == {nil, "exit status 1", "signal: killed"}
ProcRuns ==
    {r \in [output : {ShortOutput, LongOutput}, err : ProcErrs, deadline : BOOLEAN] :
        (r.err = "signal: killed") => r.deadline}
NoRun == [output |-> <<>>, err |-> "none", deadline |-> FALSE]

\* Message contents: text that is a JSON object (shape "object"), a JSON
\* object with text around it (shape "wrapped") or broken JSON (shape
\* "malformed"); obj holds the members.  VNoFlagged lacks the member flagged.
VClear == [flagged |-> FALSE, description |-> "clear"]
VClearFollow ==
    [flagged |-> FALSE, description |-> "clear",
     follow_up_prompt |-> "fp", follow_up_command |-> "fc"]
VNoCommand ==
    [flagged |-> TRUE, description |-> "susp", alert |-> "al",
     follow_up_prompt |-> "fp"]
VNoPrompt ==
    [flagged |-> TRUE, description |-> "susp", alert |-> "al",
     follow_up_command |-> "fc"]
VFollow ==
    [flagged |-> TRUE, description |-> "susp", alert |-> "al",
     follow_up_prompt |-> "fp", follow_up_command |-> "fc"]
VNoFlagged == [description |-> "susp", alert |-> "al"]
Objects == {VClear, VClearFollow, VNoCommand, VNoPrompt, VFollow, VNoFlagged}
Contents ==
    {[shape |-> "object", obj |-> o] : o \in Objects}
        \cup {[shape |-> "wrapped", obj |-> VClear],
              [shape |-> "malformed", obj |-> VClear]}

\* What client.CreateChatCompletion returns: an error, or a response with
\* a list of choices (their message contents), possibly empty.
Replies ==
    {[err |-> "transport error", choices |-> <<>>], [err |-> nil, choices |-> <<>>]}
        \cup {[err |-> nil, choices |-> <<c>>] : c \in Contents}
NoReply == [err |-> "none", choices |-> <<>>]

\* a verdict that is flagged and carries both follow-up fields
AsksFollowUp(resp) ==
    resp.Flagged /\ resp.FollowUpCommand # "" /\ resp.FollowUpPrompt # ""

(***************************************************************************)
(* Pure functions                                                          *)
(***************************************************************************)
Member(obj, name, default) == IF name \in DOMAIN obj THEN obj[name] ELSE default

\* json.Unmarshal([]byte(content), &gptResp): fails on text that is not one
\* JSON value; members absent from the object leave the zero value.
Unmarshal(content) ==
    IF content.shape # "object"
    THEN [val |-> GPTResponse, err |-> "invalid character"]
    ELSE [val |-> [Flagged |-> Member(content.obj, "flagged", FALSE),
                   Description |-> Member(content.obj, "description", ""),
                   FollowUpPrompt |-> Member(content.obj, "follow_up_prompt", ""),
                   FollowUpCommand |-> Member(content.obj, "follow_up_command", ""),
                   Alert |-> Member(content.obj, "alert", "")],
          err |-> nil]

\* callOpenAI, given what the API returned.  resp.Choices[0] on an empty
\* list is an index-out-of-range panic.
callOpenAI(reply) ==
    IF reply.err # nil
    THEN [resp |-> GPTResponse, err |-> reply.err, panic |-> FALSE]
    ELSE IF Len(reply.choices) = 0
    THEN [resp |-> GPTResponse, err |-> nil, panic |-> TRUE]
    ELSE LET u == Unmarshal(reply.choices[1])
         IN  IF u.err # nil
             THEN [resp |-> GPTResponse,
                   err |-> "failed to parse GPT response: " \o u.err,
                   panic |-> FALSE]
             ELSE [resp |-> u.val, err |-> nil, panic |-> FALSE]

executeCommandSwallowsError(command, run) ==
    IF run.deadline
    THEN [out |-> <<>>, err |-> "command execution timed out"]
    ELSE [out |-> run.output, err |-> nil]

executeCommandKeepsPartial(command, run) ==
    IF run.deadline
    THEN [out |-> run.output, err |-> "command execution timed out"]
    ELSE IF run.err # nil
    THEN [out |-> <<>>,
          err |-> "failed to execute command: " \o command \o ", error: " \o run.err]
    ELSE [out |-> run.output, err |-> nil]

\* executeCommand, given what the process did
executeCommand(command, run) ==
    IF run.deadline
    THEN [out |-> <<>>, err |-> "command execution timed out"]
    ELSE IF run.err # nil
    THEN [out |-> <<>>,
          err |-> "failed to execute command: " \o command \o ", error: " \o run.err]
    ELSE [out |-> run.output, err |-> nil]

\* outcome of the command runner, as named by the specification
Outcome(run) ==
    IF run = NoRun THEN "none"
    ELSE IF run.deadline THEN "TimedOut"
    ELSE IF run.err # nil THEN "ExecError"
    ELSE "Ok"

truncateOutputNever(output, maxLen) == output

truncateOutputOffByOne(output, maxLen) ==
    IF StrLen(output) > maxLen THEN Slice(output, maxLen + 1) ELSE output

truncateOutput(output, maxLen) ==
    IF StrLen(output) > maxLen THEN Slice(output, maxLen) ELSE output

(***************************************************************************)
(* analyze, piece by piece                                                 *)
(***************************************************************************)
\* lines 256-260
NoCommandItem(item) ==
    [item EXCEPT !.Flagged = FALSE, !.AnalysisDescription = "No command provided"]

\* lines 264-269
ExecFailedItem(item, commandOutput, err) ==
    [item EXCEPT !.Flagged = FALSE,
                 !.AnalysisDescription = "Command execution error: " \o err,
                 !.RawOutput = commandOutput]

OracleFailedItemNoOutput(item, truncatedOutput, err) ==
    [item EXCEPT !.Flagged = FALSE,
                 !.AnalysisDescription = "OpenAI API error: " \o err]

\* lines 277-282
OracleFailedItem(item, truncatedOutput, err) ==
    [item EXCEPT !.Flagged = FALSE,
                 !.AnalysisDescription = "OpenAI API error: " \o err,
                 !.RawOutput = truncatedOutput]

\* lines 285-288
VerdictItem(item, response, truncatedOutput) ==
    [item EXCEPT !.Flagged = response.Flagged,
                 !.AnalysisDescription = response.Description,
                 !.Alert = response.Alert,
                 !.RawOutput = truncatedOutput]

LoopConditionNoDepth(item, currentResponse, currentDepth) ==
    /\ item.Flagged
    /\ currentResponse.FollowUpCommand # ""
    /\ currentResponse.FollowUpPrompt # ""

LoopConditionOffByOne(item, currentResponse, currentDepth) ==
    /\ item.Flagged
    /\ currentResponse.FollowUpCommand # ""
    /\ currentResponse.FollowUpPrompt # ""
    /\ currentDepth <= maxFollowups

LoopConditionNoFlag(item, currentResponse, currentDepth) ==
    /\ currentResponse.FollowUpCommand # ""
    /\ currentResponse.FollowUpPrompt # ""
    /\ currentDepth < maxFollowups

LoopConditionNoPrompt(item, currentResponse, currentDepth) ==
    /\ item.Flagged
    /\ currentResponse.FollowUpCommand # ""
    /\ currentDepth < maxFollowups

\* the condition of the for loop, line 293
LoopCondition(item, currentResponse, currentDepth) ==
    /\ item.Flagged
    /\ currentResponse.FollowUpCommand # ""
    /\ currentResponse.FollowUpPrompt # ""
    /\ currentDepth < maxFollowups

\* the follow-up's description and alert copied into the parent
AfterFollowUpOverwrites(item, followupItem, err) ==
    IF err # nil THEN item
    ELSE [item EXCEPT !.FollowUps = Append(item.FollowUps, followupItem),
                      !.AnalysisDescription = followupItem.AnalysisDescription,
                      !.Alert = followupItem.Alert]

\* lines 297-302: the item after the recursive call returned
AfterFollowUp(item, followupItem, err) ==
    IF err # nil THEN item
    ELSE [item EXCEPT !.FollowUps = Append(item.FollowUps, followupItem)]

AfterFollowUpPcLoopsAgain(followupItem, err) ==
    IF err # nil THEN "return"
    ELSE IF Len(followupItem.FollowUps) > 0 THEN "return"
    ELSE "loop"

\* lines 297-317: every path through the loop body ends in a break
AfterFollowUpPc(followupItem, err) ==
    IF err # nil THEN "return"
    ELSE IF Len(followupItem.FollowUps) > 0 THEN "return"
    ELSE "return"

AnalyzeErrOnExecFailure(site) == IF site = "exec" THEN "exec error" ELSE nil

\* the error analyze returns at each of its return statements (lines 259,
\* 268, 281 and 320): always nil
AnalyzeErr(site) == nil

NoCommandNever(command) == FALSE

\* line 256
NoCommand(command) == command = ""

NextDepthStuck(currentDepth) == currentDepth

\* line 294: currentDepth++
NextDepth(currentDepth) == currentDepth + 1

StartPcIgnoresDbError(apiKey, dbErr) ==
    IF apiKey = "" THEN "exit" ELSE "loop"

\* lines 329-339 of main: return without the API key, return when
\* db.InitDB fails, else go on to the loop
StartPc(apiKey, dbErr) ==
    IF apiKey = "" THEN "exit"
    ELSE IF dbErr # nil THEN "exit"
    ELSE "loop"

\* lines 346-351 of main: a failed check is skipped, others are appended
MainAppend(res, item, err) ==
    IF err # nil THEN res ELSE Append(res, item)

(***************************************************************************)
(* The call stack of analyze                                               *)
(***************************************************************************)
\* A fresh invocation analyze(client, prompt, command, depth).  The fields
\* run, reply, sent, execs, oracleCalls, calls and ran are history: what the
\* invocation saw and did.
Frame(prompt, command, depth) ==
    [prompt |-> prompt, command |-> command, depth |-> depth,
     pc |-> "entry",
     item |-> AnalysisItem(prompt, command),
     commandOutput |-> <<>>, truncatedOutput |-> <<>>,
     response |-> GPTResponse, currentDepth |-> depth, err |-> nil,
     run |-> NoRun, reply |-> NoReply, sent |-> <<>>,
     execs |-> 0, oracleCalls |-> 0, calls |-> <<>>, ran |-> <<>>]

Top == stack[Len(stack)]
SetTop(f) == [stack EXCEPT ![Len(stack)] = f]
Running == mainPc = "call" /\ Len(stack) > 0

\* the record kept of an invocation that returned
LogEntry(f) ==
    [prompt |-> f.prompt, command |-> f.command, depth |-> f.depth,
     run |-> f.run, reply |-> f.reply, sent |-> f.sent,
     execs |-> f.execs, oracleCalls |-> f.oracleCalls, calls |-> f.calls,
     ran |-> f.ran, response |-> f.response, item |-> f.item, err |-> f.err]

(***************************************************************************)
(* Initial states                                                          *)
(***************************************************************************)
\* truncateOutput and executeCommand not run on their own
NoTrunc == [pc |-> "off", output |-> <<>>, maxLen |-> 0, result |-> <<>>]
NoProc == [pc |-> "off"]

InitCommon ==
    /\ mainPc = "start"
    /\ idx = 1
    /\ results = <<>>
    /\ report = Report(<<>>)
    /\ stack = <<>>
    /\ nodeLog = <<>>
    /\ longUsed = 0
    /\ faults = 0
    /\ env = [apiKey |-> "unread", dbErr |-> "uncalled"]
    /\ sink = [log |-> <<>>, file |-> <<>>]

\* the program: main ranges over the static catalog and starts at depth 0
Init ==
    /\ InitCommon
    /\ trunc = NoTrunc
    /\ proc = NoProc
    /\ catalog = checks
    /\ rootDepth = 0
    /\ followsLeft = MaxFollows

\* analyze as a function: one call with any prompt, command and depth
InitAnalyze ==
    /\ InitCommon
    /\ trunc = NoTrunc
    /\ proc = NoProc
    /\ catalog \in {<<Check(c, p)>> : c \in {"", "c1"}, p \in {"", "p1"}}
    /\ rootDepth \in 0..MaxRootDepth
    /\ followsLeft = maxFollowups + 1

\* truncateOutput as a function: any string and any maxLen >= 0, among them
\* strings around the limit of the program
TruncStrings ==
    {Encode(q) : q \in UNION {[1..n -> {"a", "b"}] : n \in 0..MaxStrLen}}
        \cup {Str("x", maxOutputCharacters - 1), Str("x", maxOutputCharacters),
              LongOutput, Str("x", maxOutputCharacters) \o Str("y", 2)}
TruncLens == 0..(MaxStrLen + 1) \cup {maxOutputCharacters}

InitTruncate ==
    /\ InitCommon
    /\ catalog = checks
    /\ rootDepth = 0
    /\ followsLeft = MaxFollows
    /\ proc = NoProc
    /\ trunc \in {[pc |-> "call", output |-> o, maxLen |-> m, result |-> <<>>] :
                    o \in TruncStrings, m \in TruncLens}

\* lines 241-246: one call of truncateOutput
Truncate ==
    /\ trunc.pc = "call"
    /\ trunc' = [trunc EXCEPT !.result = truncateOutput(trunc.output, trunc.maxLen),
                              !.pc = "done"]
    /\ UNCHANGED <<mainPc, catalog, rootDepth, idx, results, report, stack, nodeLog,
                   longUsed, faults, followsLeft, env, sink, proc>>

NextTruncate == Truncate

SpecTruncate == InitTruncate /\ [][NextTruncate]_vars

(***************************************************************************)
(* executeCommand on its own: the process started by exec.CommandContext,  *)
(* the deadline of ctx and the wait inside cmd.CombinedOutput.             *)
(*                                                                         *)
(* cmd.CombinedOutput gives the child one pipe for stdout and stderr and   *)
(* returns when sh has been waited for and the pipe has been read to its   *)
(* end, i.e. when no process holds its write end any more (cmd.WaitDelay   *)
(* is not set).  When the deadline passes, the context kills the process   *)
(* it started, sh; the code sets no process group and no cmd.Cancel, so    *)
(* processes started by sh are not signalled.                              *)
(***************************************************************************)
\* what a command can do: end by itself with status 0 or 1, or never; start
\* descendants that inherit the pipe, or not
Behaviours == [ends : {"exit0", "exit1", "never"}, forks : BOOLEAN]

InitExec ==
    /\ InitCommon
    /\ catalog = checks
    /\ rootDepth = 0
    /\ followsLeft = MaxFollows
    /\ trunc = NoTrunc
    /\ proc \in {[pc |-> "call", cmd |-> b, sh |-> "none", desc |-> "none",
                   written |-> 0, timer |-> "armed", cancel |-> "no",
                   doneFirst |-> FALSE,
                   waitErr |-> nil, result |-> [out |-> <<>>, err |-> nil]] :
                     b \in Behaviours}

ExecUnchanged ==
    UNCHANGED <<mainPc, catalog, rootDepth, idx, results, report, stack, nodeLog,
                longUsed, faults, followsLeft, env, sink, trunc>>

\* lines 225-226: cmd.Start inside CombinedOutput; it fails when the
\* deadline has passed already or when sh cannot be started
ExecStart ==
    /\ proc.pc = "call"
    /\ \/ /\ proc.timer = "fired"
          /\ proc' = [proc EXCEPT !.pc = "check", !.waitErr = "context deadline exceeded"]
       \/ /\ proc.timer = "armed"
          /\ \/ proc' = [proc EXCEPT !.pc = "check", !.waitErr = "exec: sh: not found"]
             \/ proc' = [proc EXCEPT !.pc = "wait", !.sh = "running",
                            !.desc = IF proc.cmd.forks THEN "alive" ELSE "none"]
    /\ ExecUnchanged

\* sh or a descendant writes to the pipe
ProcWrite ==
    /\ proc.pc = "wait"
    /\ proc.sh = "running" \/ proc.desc = "alive"
    /\ proc.written < MaxWrites
    /\ proc' = [proc EXCEPT !.written = @ + 1]
    /\ ExecUnchanged

\* sh ends by itself
ShExit ==
    /\ proc.pc = "wait"
    /\ proc.sh = "running"
    /\ proc.cmd.ends # "never"
    /\ proc' = [proc EXCEPT !.sh = IF proc.cmd.ends = "exit0" THEN "exited0" ELSE "exited1"]
    /\ ExecUnchanged

\* the descendants end by themselves
DescExit ==
    /\ proc.desc = "alive"
    /\ proc' = [proc EXCEPT !.desc = "gone"]
    /\ ExecUnchanged

\* line 222: the deadline of context.WithTimeout passes; ctx.Err() is
\* DeadlineExceeded from now on.  doneFirst is history: the command had
\* ended with status 0, descendants included, when the deadline passed.
DeadlineFires ==
    /\ proc.pc \in {"call", "wait", "check"}
    /\ proc.timer = "armed"
    /\ proc' = [proc EXCEPT !.timer = "fired",
                            !.doneFirst = proc.sh = "exited0" /\ proc.desc # "alive"]
    /\ ExecUnchanged

\* line 225: exec.CommandContext kills the process it started once ctx is
\* done; a process that has ended already is left alone
CancelKills ==
    /\ proc.pc = "wait"
    /\ proc.timer = "fired"
    /\ proc.cancel = "no"
    /\ proc' = [proc EXCEPT !.cancel = "done",
                            !.sh = IF @ = "running" THEN "killed" ELSE @]
    /\ ExecUnchanged

\* line 226: cmd.CombinedOutput returns: sh has ended and the pipe is closed
WaitReturns ==
    /\ proc.pc = "wait"
    /\ proc.sh # "running"
    /\ proc.desc # "alive"
    /\ proc' = [proc EXCEPT !.pc = "check",
                            !.waitErr = CASE proc.sh = "exited0" -> nil
                                          [] proc.sh = "exited1" -> "exit status 1"
                                          [] OTHER -> "signal: killed"]
    /\ ExecUnchanged

\* lines 229-237: ctx.Err() is read and the result chosen
CheckCtx ==
    /\ proc.pc = "check"
    /\ proc' = [proc EXCEPT
                  !.pc = "returned",
                  !.result = executeCommand("c1", [output |-> Str("o", proc.written),
                                                   err |-> proc.waitErr,
                                                   deadline |-> proc.timer = "fired"])]
    /\ ExecUnchanged

NextExec ==
    \/ ExecStart
    \/ ProcWrite
    \/ ShExit
    \/ DescExit
    \/ DeadlineFires
    \/ CancelKills
    \/ WaitReturns
    \/ CheckCtx

SpecExec == InitExec /\ [][NextExec]_vars

\* the program and the runtime take their steps and the deadline passes;
\* nothing obliges a command or its descendants to write or to end
FairSpecExec ==
    /\ SpecExec
    /\ WF_vars(ExecStart)
    /\ WF_vars(DeadlineFires)
    /\ WF_vars(CancelKills)
    /\ WF_vars(WaitReturns)
    /\ WF_vars(CheckCtx)

(***************************************************************************)
(* main                                                                    *)
(***************************************************************************)
\* lines 329-341: the run stops without the API key or the database
MainStart ==
    /\ mainPc = "start"
    /\ \E apiKey \in {"", "sk"}, dbErr \in {nil, "db error"} :
          /\ mainPc' = StartPc(apiKey, dbErr)
          /\ env' = [apiKey |-> apiKey,
                     dbErr |-> IF apiKey = "" THEN "uncalled" ELSE dbErr]
    /\ UNCHANGED <<catalog, rootDepth, idx, results, report, stack, nodeLog, longUsed, faults, followsLeft>>
    /\ UNCHANGED <<sink, trunc, proc>>

\* lines 345-346 and 354: call analyze for the next check, or build the report
MainLoop ==
    /\ mainPc = "loop"
    /\ IF idx <= Len(catalog)
       THEN /\ stack' = <<Frame(catalog[idx].Prompt, catalog[idx].Command, rootDepth)>>
            /\ mainPc' = "call"
            /\ UNCHANGED report
       ELSE /\ report' = Report(results)
            /\ mainPc' = "sink"
            /\ UNCHANGED stack
    /\ UNCHANGED <<catalog, rootDepth, idx, results, nodeLog, longUsed, faults, followsLeft>>
    /\ UNCHANGED <<env, sink, trunc, proc>>

\* lines 356-367: the report goes to the log store (db.CreateLog) and to
\* report.json (os.WriteFile, which may fail)
MainSink ==
    /\ mainPc = "sink"
    /\ \E writeErr \in {nil, "write error"} :
          sink' = [log |-> Append(sink.log, report),
                   file |-> IF writeErr = nil THEN <<report>> ELSE sink.file]
    /\ mainPc' = "done"
    /\ UNCHANGED <<catalog, rootDepth, idx, results, report, stack, nodeLog, longUsed, faults, followsLeft>>
    /\ UNCHANGED <<env, trunc, proc>>

(***************************************************************************)
(* analyze                                                                 *)
(***************************************************************************)
\* lines 250-260
AnalyzeEntry ==
    /\ Running
    /\ Top.pc = "entry"
    /\ IF NoCommand(Top.command)
       THEN stack' = SetTop([Top EXCEPT !.item = NoCommandItem(Top.item),
                                        !.err = AnalyzeErr("nocommand"),
                                        !.pc = "return"])
       ELSE stack' = SetTop([Top EXCEPT !.pc = "exec"])
    /\ UNCHANGED <<mainPc, catalog, rootDepth, idx, results, report, nodeLog, longUsed, faults, followsLeft>>
    /\ UNCHANGED <<env, sink, trunc, proc>>

\* lines 263-269
AnalyzeExec ==
    /\ Running
    /\ Top.pc = "exec"
    /\ \E run \in ProcRuns :
          LET long == StrLen(run.output) > maxOutputCharacters
              r == executeCommand(Top.command, run)
              f == [Top EXCEPT !.run = run, !.execs = @ + 1, !.commandOutput = r.out,
                               !.ran = Append(@, Top.command)]
          IN  /\ long => longUsed < MaxLong
              /\ r.err # nil => faults < MaxFaults
              /\ longUsed' = IF long THEN longUsed + 1 ELSE longUsed
              /\ faults' = IF r.err # nil THEN faults + 1 ELSE faults
              /\ IF r.err # nil
                 THEN stack' = SetTop([f EXCEPT
                                 !.item = ExecFailedItem(f.item, r.out, r.err),
                                 !.err = AnalyzeErr("exec"),
                                 !.pc = "return"])
                 ELSE stack' = SetTop([f EXCEPT !.pc = "oracle"])
    /\ UNCHANGED <<mainPc, catalog, rootDepth, idx, results, report, nodeLog, followsLeft>>
    /\ UNCHANGED <<env, sink, trunc, proc>>

\* lines 272-292
AnalyzeOracle ==
    /\ Running
    /\ Top.pc = "oracle"
    /\ \E reply \in Replies :
          LET truncatedOutput == truncateOutput(Top.commandOutput, maxOutputCharacters)
              fullPrompt == <<Top.command, truncatedOutput>>
              r == callOpenAI(reply)
              f == [Top EXCEPT !.truncatedOutput = truncatedOutput,
                               !.sent = fullPrompt,
                               !.reply = reply, !.oracleCalls = @ + 1]
              failed == r.panic \/ r.err # nil
              asks == ~failed /\ AsksFollowUp(r.resp)
          IN  /\ failed => faults < MaxFaults
              /\ asks => followsLeft > 0
              /\ faults' = IF failed THEN faults + 1 ELSE faults
              /\ followsLeft' = IF asks THEN followsLeft - 1 ELSE followsLeft
              /\ IF r.panic
                 THEN /\ mainPc' = "panic"
                      /\ stack' = SetTop(f)
                 ELSE /\ mainPc' = mainPc
                      /\ IF r.err # nil
                         THEN stack' = SetTop([f EXCEPT
                                 !.item = OracleFailedItem(f.item, truncatedOutput, r.err),
                                 !.err = AnalyzeErr("oracle"),
                                 !.pc = "return"])
                         ELSE stack' = SetTop([f EXCEPT
                                 !.item = VerdictItem(f.item, r.resp, truncatedOutput),
                                 !.response = r.resp,
                                 !.currentDepth = f.depth,
                                 !.pc = "loop"])
    /\ UNCHANGED <<catalog, rootDepth, idx, results, report, nodeLog, longUsed>>
    /\ UNCHANGED <<env, sink, trunc, proc>>

\* the recursive call started without waiting for its result
AnalyzeLoopNoWait ==
    /\ Running
    /\ Top.pc = "loop"
    /\ IF LoopCondition(Top.item, Top.response, Top.currentDepth)
       THEN LET d == NextDepth(Top.currentDepth)
                f == [Top EXCEPT !.currentDepth = d, !.pc = "return",
                        !.calls = Append(@, [prompt |-> Top.response.FollowUpPrompt,
                                             command |-> Top.response.FollowUpCommand,
                                             depth |-> d])]
            IN  stack' = Append(SetTop(f),
                                Frame(Top.response.FollowUpPrompt,
                                      Top.response.FollowUpCommand, d))
       ELSE stack' = SetTop([Top EXCEPT !.err = AnalyzeErr("end"), !.pc = "return"])
    /\ UNCHANGED <<mainPc, catalog, rootDepth, idx, results, report, nodeLog, longUsed, faults, followsLeft>>
    /\ UNCHANGED <<env, sink, trunc, proc>>

\* lines 293-296 and 320: the loop test; the recursive call or the return
AnalyzeLoop ==
    /\ Running
    /\ Top.pc = "loop"
    /\ IF LoopCondition(Top.item, Top.response, Top.currentDepth)
       THEN LET d == NextDepth(Top.currentDepth)
                f == [Top EXCEPT !.currentDepth = d, !.pc = "wait",
                        !.calls = Append(@, [prompt |-> Top.response.FollowUpPrompt,
                                             command |-> Top.response.FollowUpCommand,
                                             depth |-> d])]
            IN  stack' = Append(SetTop(f),
                                Frame(Top.response.FollowUpPrompt,
                                      Top.response.FollowUpCommand, d))
       ELSE stack' = SetTop([Top EXCEPT !.err = AnalyzeErr("end"), !.pc = "return"])
    /\ UNCHANGED <<mainPc, catalog, rootDepth, idx, results, report, nodeLog, longUsed, faults, followsLeft>>
    /\ UNCHANGED <<env, sink, trunc, proc>>

\* a return statement of analyze: back in the calling analyze (lines
\* 297-317) or in main (lines 347-351)
AnalyzeReturn ==
    /\ Running
    /\ Top.pc = "return"
    /\ nodeLog' = Append(nodeLog, LogEntry(Top))
    /\ IF Len(stack) > 1
       THEN LET caller == stack[Len(stack) - 1]
                f == [caller EXCEPT
                        !.item = AfterFollowUp(caller.item, Top.item, Top.err),
                        !.pc = AfterFollowUpPc(Top.item, Top.err)]
            IN  /\ stack' = [SubSeq(stack, 1, Len(stack) - 1) EXCEPT ![Len(stack) - 1] = f]
                /\ UNCHANGED <<mainPc, idx, results>>
       ELSE /\ stack' = <<>>
            /\ results' = MainAppend(results, Top.item, Top.err)
            /\ idx' = idx + 1
            /\ mainPc' = "loop"
    /\ UNCHANGED <<catalog, rootDepth, report, longUsed, faults, followsLeft>>
    /\ UNCHANGED <<env, sink, trunc, proc>>

Next ==
    \/ MainStart
    \/ MainLoop
    \/ MainSink
    \/ AnalyzeEntry
    \/ AnalyzeExec
    \/ AnalyzeOracle
    \/ AnalyzeLoop
    \/ AnalyzeReturn

Spec == Init /\ [][Next]_vars
SpecAnalyze == InitAnalyze /\ [][Next]_vars

\* every step of the program is taken once it can be: the code is
\* sequential, and the command and the API are taken to answer
FairSpec == Spec /\ WF_vars(Next)
FairSpecAnalyze == SpecAnalyze /\ WF_vars(Next)

(***************************************************************************)
(* Vocabulary of the properties                                            *)
(***************************************************************************)
Entries == {nodeLog[i] : i \in 1..Len(nodeLog)}
Halted == mainPc \in {"done", "exit", "panic"}

\* the API call of the invocation failed: transport error or unparsable text
OracleFailed(e) ==
    /\ e.oracleCalls > 0
    /\ \/ e.reply.err # nil
       \/ Len(e.reply.choices) > 0 /\ e.reply.choices[1].shape # "object"

\* the invocation got a verdict
HasVerdict(e) ==
    /\ e.oracleCalls > 0
    /\ e.reply.err = nil
    /\ Len(e.reply.choices) > 0
    /\ e.reply.choices[1].shape = "object"

ExecFailed(e) == Outcome(e.run) \in {"TimedOut", "ExecError"}

RECURSIVE Height(_)
Height(item) ==
    IF item.FollowUps = <<>> THEN 0
    ELSE LET hs == {Height(item.FollowUps[i]) : i \in 1..Len(item.FollowUps)}
         IN  1 + CHOOSE h \in hs : \A k \in hs : k <= h

RECURSIVE AtMostOneFollowUp(_)
AtMostOneFollowUp(item) ==
    /\ Len(item.FollowUps) <= 1
    /\ \A i \in 1..Len(item.FollowUps) : AtMostOneFollowUp(item.FollowUps[i])

(***************************************************************************)
(* C1: every run of analyze halts, and no node of a returned tree lies     *)
(* more than maxFollowups levels below its root; from a root at depth 0 no *)
(* invocation runs at a depth above maxFollowups.                          *)
(***************************************************************************)
C1_DepthBound ==
    /\ \A i \in 1..Len(results) : Height(results[i]) <= maxFollowups
    /\ Len(stack) <= maxFollowups + 1
    /\ rootDepth = 0 =>
          /\ \A e \in Entries : e.depth <= maxFollowups
          /\ \A i \in 1..Len(stack) : stack[i].depth <= maxFollowups

C1_TerminatesWithinDepth == <>Halted /\ []C1_DepthBound

\* a finished run whose tree is maxFollowups deep and whose deepest verdict
\* still asks for a follow-up
C1_Witness ==
    /\ mainPc = "done"
    /\ \E i \in 1..Len(results) : Height(results[i]) = maxFollowups
    /\ \E e \in Entries : e.depth = maxFollowups /\ AsksFollowUp(e.response)

(***************************************************************************)
(* C2: analyze is total: whatever the command runner and the API answer,   *)
(* it returns an item and a nil error, and a failing outcome gives an item *)
(* with flagged = false and a non-empty description.                       *)
(***************************************************************************)
C2_AnalyzeTotal ==
    /\ mainPc # "panic"
    /\ \A e \in Entries :
          /\ e.err = nil
          /\ (ExecFailed(e) \/ OracleFailed(e)) =>
                ~e.item.Flagged /\ e.item.AnalysisDescription # ""

(***************************************************************************)
(* C3: when main has finished its loop, the report holds one root item per *)
(* check of the catalog, in catalog order.                                 *)
(***************************************************************************)
C3_ReportInCatalogOrder ==
    mainPc = "done" =>
        /\ Len(report.Items) = Len(catalog)
        /\ \A i \in 1..Len(catalog) :
              /\ report.Items[i].Prompt = catalog[i].Prompt
              /\ report.Items[i].Command = catalog[i].Command

\* a finished run over several checks in which a follow-up failed
C3_Witness ==
    /\ mainPc = "done"
    /\ Len(catalog) > 1
    /\ Len(report.Items) = Len(catalog)
    /\ \E e \in Entries : e.depth > 0 /\ (ExecFailed(e) \/ OracleFailed(e))

(***************************************************************************)
(* C4: an invocation makes a recursive call if and only if its verdict is  *)
(* flagged, carries both follow-up fields and its depth is below           *)
(* maxFollowups; otherwise its follow_ups is empty and it runs nothing     *)
(* more.                                                                   *)
(***************************************************************************)
C4_Gate(e) ==
    /\ HasVerdict(e)
    /\ e.response.Flagged
    /\ e.response.FollowUpCommand # ""
    /\ e.response.FollowUpPrompt # ""
    /\ e.depth < maxFollowups

C4_FollowUpIffGate ==
    \A e \in Entries :
        /\ (Len(e.calls) > 0) <=> C4_Gate(e)
        /\ ~C4_Gate(e) => e.item.FollowUps = <<>> /\ e.calls = <<>> /\ e.execs <= 1

\* a node that followed up, whose child is not flagged although its verdict
\* carries both follow-up fields, so that the child did not follow up
C4_Witness ==
    \E i \in 2..Len(nodeLog) :
        /\ C4_Gate(nodeLog[i])
        /\ Len(nodeLog[i].item.FollowUps) = 1
        /\ HasVerdict(nodeLog[i - 1])
        /\ ~nodeLog[i - 1].response.Flagged
        /\ nodeLog[i - 1].response.FollowUpCommand # ""
        /\ nodeLog[i - 1].response.FollowUpPrompt # ""
        /\ nodeLog[i - 1].item.FollowUps = <<>>

(***************************************************************************)
(* C5: at depth maxFollowups - 1 a flagged verdict with both follow-up     *)
(* fields causes exactly one recursive call, at depth maxFollowups, and    *)
(* the invocation at depth maxFollowups makes none and has no follow_ups.  *)
(***************************************************************************)
C5_LastLevel ==
    \A e \in Entries :
        /\ (e.depth = maxFollowups - 1 /\ HasVerdict(e) /\ AsksFollowUp(e.response)) =>
              /\ Len(e.calls) = 1
              /\ e.calls[1].depth = maxFollowups
              /\ Len(e.item.FollowUps) = 1
              /\ e.item.FollowUps[1].FollowUps = <<>>
        /\ e.depth = maxFollowups => e.calls = <<>> /\ e.item.FollowUps = <<>>

\* the node at depth maxFollowups - 1 has returned, and its child's own
\* verdict asked for a follow-up
C5_Witness ==
    /\ \E e \in Entries :
          e.depth = maxFollowups - 1 /\ AsksFollowUp(e.response) /\ Len(e.calls) = 1
    /\ \E e \in Entries :
          e.depth = maxFollowups /\ HasVerdict(e) /\ AsksFollowUp(e.response)

(***************************************************************************)
(* C6: every item of every returned tree has at most one follow-up and     *)
(* every invocation makes at most one recursive call; a follow-up judged   *)
(* not flagged is the parent's only follow-up, carries the description of  *)
(* its own verdict and has no follow_ups.                                  *)
(***************************************************************************)
C6_SingleFollowUp ==
    /\ \A i \in 1..Len(results) : AtMostOneFollowUp(results[i])
    /\ \A e \in Entries : Len(e.calls) <= 1 /\ AtMostOneFollowUp(e.item)
    /\ \A i \in 2..Len(nodeLog) :
          LET parent == nodeLog[i]
              child == nodeLog[i - 1]
          IN  (parent.calls # <<>> /\ HasVerdict(child) /\ ~child.response.Flagged) =>
                 /\ Len(parent.item.FollowUps) = 1
                 /\ parent.item.FollowUps[1].AnalysisDescription = child.response.Description
                 /\ parent.item.FollowUps[1].FollowUps = <<>>

\* a flagged root returned with its single follow-up judged clear
C6_Witness ==
    \E i \in 2..Len(nodeLog) :
        /\ nodeLog[i].depth = 0
        /\ nodeLog[i].item.Flagged
        /\ nodeLog[i].calls # <<>>
        /\ HasVerdict(nodeLog[i - 1])
        /\ ~nodeLog[i - 1].response.Flagged
        /\ Len(nodeLog[i].item.FollowUps) = 1
        /\ nodeLog[i].item.FollowUps[1].AnalysisDescription = "clear"

C8_ErrorText(e) ==
    IF Outcome(e.run) = "TimedOut"
    THEN "Command execution error: command execution timed out"
    ELSE "Command execution error: failed to execute command: "
            \o e.command \o ", error: " \o e.run.err

C8_ExecFailure ==
    /\ \A e \in Entries :
          ExecFailed(e) =>
              /\ e.oracleCalls = 0
              /\ ~e.item.Flagged
              /\ e.item.AnalysisDescription = C8_ErrorText(e)
              /\ e.item.FollowUps = <<>> /\ e.calls = <<>>
              /\ Outcome(e.run) = "TimedOut" => e.item.RawOutput = <<>>
    /\ \A i \in 1..Len(stack) : ExecFailed(stack[i]) => stack[i].pc = "return"

\* a command that timed out after writing output, in a follow-up
C8_Witness ==
    \E e \in Entries :
        /\ Outcome(e.run) = "TimedOut"
        /\ e.run.err = "signal: killed"
        /\ e.run.output # <<>>
        /\ e.depth > 0

(***************************************************************************)
(* C9: when the command fails with ExecError after producing output, the   *)
(* returned item carries that output as raw_output.                        *)
(***************************************************************************)
C9_ExecErrorKeepsOutput ==
    \A e \in Entries :
        (Outcome(e.run) = "ExecError" /\ e.run.output # <<>>) =>
            e.item.RawOutput = e.run.output

(***************************************************************************)
(* C10: when the API call fails after the command ran Ok, the item is not  *)
(* flagged, its description is the error text, raw_output is the truncated *)
(* command output, follow_ups is empty, and the API was called once.       *)
(***************************************************************************)
C10_ErrorText(e) ==
    IF e.reply.err # nil
    THEN "OpenAI API error: " \o e.reply.err
    ELSE "OpenAI API error: failed to parse GPT response: invalid character"

C10_OracleFailure ==
    \A e \in Entries :
        (Outcome(e.run) = "Ok" /\ OracleFailed(e)) =>
            /\ ~e.item.Flagged
            /\ e.item.AnalysisDescription = C10_ErrorText(e)
            /\ IF StrLen(e.run.output) <= maxOutputCharacters
               THEN e.item.RawOutput = e.run.output
               ELSE /\ StrLen(e.item.RawOutput) = maxOutputCharacters
                    /\ IsPrefix(e.item.RawOutput, e.run.output)
            /\ e.item.FollowUps = <<>> /\ e.calls = <<>>
            /\ e.oracleCalls = 1 /\ e.execs = 1

\* the API call failed on an output that had to be truncated
C10_Witness ==
    \E e \in Entries :
        /\ Outcome(e.run) = "Ok"
        /\ OracleFailed(e)
        /\ StrLen(e.run.output) > maxOutputCharacters
        /\ e.item.RawOutput # <<>>

(***************************************************************************)
(* C11: a reply that deviates from the verdict shape (text around the      *)
(* JSON, malformed JSON, an object without the member flagged) is an       *)
(* error of callOpenAI: analyze returns the item of a failed API call,     *)
(* never an item built from a partial verdict.                             *)
(***************************************************************************)
C11_Deviates(content) ==
    content.shape # "object" \/ "flagged" \notin DOMAIN content.obj

C11_DeviationIsOracleError ==
    \A e \in Entries :
        (e.oracleCalls > 0 /\ e.reply.err = nil /\ Len(e.reply.choices) > 0
            /\ C11_Deviates(e.reply.choices[1])) =>
                /\ ~e.item.Flagged
                /\ e.item.AnalysisDescription =
                      "OpenAI API error: failed to parse GPT response: invalid character"
                /\ e.response = GPTResponse

(***************************************************************************)
(* C12: the user content sent to the API for a node is that node's prompt  *)
(* together with the truncated command output.                             *)
(***************************************************************************)
C12_SendsCheckPrompt ==
    \A e \in Entries :
        e.oracleCalls > 0 =>
            /\ Len(e.sent) = 2
            /\ e.sent[1] = e.prompt
            /\ e.sent[2] = e.item.RawOutput

(***************************************************************************)
(* C13: for every maxChars >= 0 and every string s, truncateOutput(s,      *)
(* maxChars) has length min(len(s), maxChars), is a prefix of s, and is s  *)
(* itself when len(s) <= maxChars.                                         *)
(***************************************************************************)
C13_TruncatePrefix ==
    trunc.pc = "done" =>
        LET k == Min(StrLen(trunc.output), trunc.maxLen)
        IN  /\ StrLen(trunc.result) = k
            /\ IsPrefix(trunc.result, trunc.output)
            /\ StrLen(trunc.output) <= trunc.maxLen => trunc.result = trunc.output
            /\ StrLen(trunc.output) <= MaxStrLen =>
                  Decode(trunc.result) = SubSeq(Decode(trunc.output), 1, k)

\* a string of several runs was cut inside, to a non-empty result
C13_Witness ==
    /\ trunc.pc = "done"
    /\ Len(trunc.output) > 1
    /\ trunc.maxLen > 0
    /\ StrLen(trunc.output) > trunc.maxLen
    /\ trunc.result # <<>>
    /\ trunc.result # trunc.output

(***************************************************************************)
(* C14: the run is sequential.  Only the innermost invocation is active,   *)
(* every invocation below it waits for its recursive call and has its      *)
(* verdict already; within an invocation the command runs before the       *)
(* output is truncated and sent, and the API answers before the recursive  *)
(* call; main starts a check only when the trees of all earlier checks     *)
(* have been returned.                                                     *)
(***************************************************************************)
C14_StepOrder(f) ==
    /\ f.pc \in {"entry", "exec"} => f.execs = 0 /\ f.oracleCalls = 0 /\ f.calls = <<>>
    /\ f.pc = "oracle" =>
          /\ f.execs = 1 /\ f.calls = <<>>
          /\ f.oracleCalls = IF mainPc = "panic" THEN 1 ELSE 0
    /\ f.oracleCalls > 0 => f.execs = 1 /\ Outcome(f.run) = "Ok"
    /\ f.oracleCalls > 0 => f.sent = <<f.command, f.truncatedOutput>>
    /\ f.calls # <<>> => f.oracleCalls = 1 /\ HasVerdict(f)

C14_Sequential ==
    /\ \A i \in 1..(Len(stack) - 1) :
          /\ stack[i].pc = "wait"
          /\ HasVerdict(stack[i])
          /\ Len(stack[i].calls) = 1
    /\ \A i \in 1..Len(stack) : C14_StepOrder(stack[i])
    /\ Len(stack) > 0 => stack[Len(stack)].pc # "wait"
    /\ Len(stack) > 0 =>
          /\ mainPc \in {"call", "panic"}
          /\ idx <= Len(catalog)
          /\ stack[1].command = catalog[idx].Command
          /\ Len(results) = idx - 1
          /\ Cardinality({k \in 1..Len(nodeLog) : nodeLog[k].depth = rootDepth}) = idx - 1
    /\ mainPc \in {"start", "loop", "sink", "done", "exit"} => stack = <<>>

\* the follow-up of the second check is about to run its command, its
\* parent waiting with its verdict, the first check returned
C14_Witness ==
    /\ idx = 2
    /\ Len(results) = 1
    /\ Len(stack) = 2
    /\ stack[2].pc = "exec"
    /\ stack[1].pc = "wait"

(***************************************************************************)
(* C15: without the API key, or when the database fails to initialize,     *)
(* the run stops before any check: no command is run, the API is not       *)
(* called, and nothing is written to the log store or to the file.         *)
(***************************************************************************)
C15_AbortBeforeChecks ==
    (mainPc # "start" /\ (env.apiKey = "" \/ env.dbErr = "db error")) =>
        /\ mainPc = "exit"
        /\ stack = <<>>
        /\ nodeLog = <<>>
        /\ results = <<>>
        /\ report = Report(<<>>)
        /\ sink = [log |-> <<>>, file |-> <<>>]

\* the key is there and db.InitDB failed
C15_Witness ==
    /\ mainPc = "exit"
    /\ env.apiKey # ""
    /\ env.dbErr = "db error"

(***************************************************************************)
(* C16: executeCommand always returns, also for a command that never ends  *)
(* by itself or whose descendants keep its output pipe open: once the      *)
(* deadline has passed, the whole process group is cancelled and the wait  *)
(* for the output ends.                                                    *)
(***************************************************************************)
C16_AlwaysReturns == <>(proc.pc = "returned")

\* the same as a statement about single states: after the cancellation at
\* the deadline no process of the command is left to wait for
C16_WholeGroupCancelled ==
    (proc.pc = "wait" /\ proc.cancel = "done") =>
        proc.sh # "running" /\ proc.desc # "alive"

(***************************************************************************)
(* C17: every returned node is in exactly one of the states NoCommand,     *)
(* ExecFailed, OracleFailed, Clear, FlaggedNoFollowup and                  *)
(* FlaggedWithFollowup; only a node in FlaggedWithFollowup has a child, so *)
(* every item with follow_ups is flagged; a node at depth maxFollowups     *)
(* whose verdict asks for a follow-up is in FlaggedNoFollowup.             *)
(***************************************************************************)
C17_States(e) ==
    {st \in {"NoCommand", "ExecFailed", "OracleFailed", "Clear",
             "FlaggedNoFollowup", "FlaggedWithFollowup"} :
        CASE st = "NoCommand" -> e.command = ""
          [] st = "ExecFailed" -> e.execs > 0 /\ ExecFailed(e)
          [] st = "OracleFailed" -> OracleFailed(e)
          [] st = "Clear" -> HasVerdict(e) /\ ~e.item.Flagged
          [] st = "FlaggedNoFollowup" ->
                HasVerdict(e) /\ e.item.Flagged /\ e.item.FollowUps = <<>>
          [] OTHER -> HasVerdict(e) /\ e.item.Flagged /\ e.item.FollowUps # <<>>}

RECURSIVE C17_ParentsFlagged(_)
C17_ParentsFlagged(item) ==
    /\ item.FollowUps # <<>> => item.Flagged
    /\ \A i \in 1..Len(item.FollowUps) : C17_ParentsFlagged(item.FollowUps[i])

C17_NodeStates ==
    /\ \A e \in Entries :
          /\ Cardinality(C17_States(e)) = 1
          /\ (e.item.FollowUps # <<>> \/ e.calls # <<>>) =>
                C17_States(e) = {"FlaggedWithFollowup"}
          /\ (e.depth = maxFollowups /\ HasVerdict(e) /\ AsksFollowUp(e.response)) =>
                C17_States(e) = {"FlaggedNoFollowup"}
          /\ C17_ParentsFlagged(e.item)
    /\ \A i \in 1..Len(results) : C17_ParentsFlagged(results[i])

\* a node with a child, the child at depth maxFollowups asking for more
C17_Witness ==
    \E i \in 2..Len(nodeLog) :
        /\ C17_States(nodeLog[i]) = {"FlaggedWithFollowup"}
        /\ nodeLog[i - 1].depth = maxFollowups
        /\ AsksFollowUp(nodeLog[i - 1].response)
        /\ C17_States(nodeLog[i - 1]) = {"FlaggedNoFollowup"}

C19_ChildOfVerdict ==
    /\ \A i \in 1..Len(nodeLog) :
          LET parent == nodeLog[i]
          IN  /\ C4_Gate(parent) => Len(parent.calls) = 1
              /\ parent.calls # <<>> =>
                    /\ i > 1
                    /\ parent.calls[1] = [prompt |-> parent.response.FollowUpPrompt,
                                          command |-> parent.response.FollowUpCommand,
                                          depth |-> parent.depth + 1]
                    /\ nodeLog[i - 1].prompt = parent.response.FollowUpPrompt
                    /\ nodeLog[i - 1].command = parent.response.FollowUpCommand
                    /\ nodeLog[i - 1].depth = parent.depth + 1
                    /\ nodeLog[i - 1].ran = <<parent.response.FollowUpCommand>>
                    /\ parent.item.FollowUps = <<nodeLog[i - 1].item>>
                    /\ parent.item.FollowUps[1].Prompt = parent.response.FollowUpPrompt
                    /\ parent.item.FollowUps[1].Command = parent.response.FollowUpCommand
    /\ \A i \in 1..(Len(stack) - 1) :
          /\ stack[i + 1].depth = stack[i].depth + 1
          /\ stack[i + 1].prompt = stack[i].response.FollowUpPrompt
          /\ stack[i + 1].command = stack[i].response.FollowUpCommand

\* a follow-up of a follow-up has run its command and was returned
C19_Witness ==
    \E i \in 2..Len(nodeLog) :
        /\ nodeLog[i].depth > rootDepth
        /\ nodeLog[i].calls # <<>>
        /\ nodeLog[i - 1].ran = <<"fc">>
        /\ nodeLog[i - 1].depth = nodeLog[i].depth + 1

(***************************************************************************)
(* C20: an invocation runs its command at most once and calls the API at   *)
(* most once, and it calls the API exactly when the command is not empty   *)
(* and ran Ok; a verdict is that of the node's own reply; one root check   *)
(* causes at most maxFollowups + 1 command runs and no more API calls than *)
(* runs that ended Ok.                                                     *)
(***************************************************************************)
RECURSIVE C20_Sum(_, _)
C20_Sum(Op(_), seq) ==
    IF seq = <<>> THEN 0 ELSE Op(Head(seq)) + C20_Sum(Op, Tail(seq))

C20_Execs(f) == f.execs
C20_OracleCalls(f) == f.oracleCalls
C20_OkRuns(f) == IF Outcome(f.run) = "Ok" THEN 1 ELSE 0

C20_OnceEach(f) ==
    /\ f.execs <= 1
    /\ f.oracleCalls <= 1
    /\ Len(f.ran) = f.execs
    /\ f.oracleCalls = 1 => f.command # "" /\ f.execs = 1 /\ Outcome(f.run) = "Ok"
    /\ f.command = "" => f.execs = 0

RECURSIVE C21_Bounded(_)
C21_Bounded(item) ==
    /\ StrLen(item.RawOutput) <= maxOutputCharacters
    /\ \A i \in 1..Len(item.FollowUps) : C21_Bounded(item.FollowUps[i])

C21_IsTruncationOf(raw, output) ==
    /\ StrLen(raw) = Min(StrLen(output), maxOutputCharacters)
    /\ IsPrefix(raw, output)

C21_RawOutputBounded ==
    /\ \A e \in Entries :
          /\ C21_Bounded(e.item)
          /\ (e.command = "" \/ ExecFailed(e)) => e.item.RawOutput = <<>>
          /\ e.oracleCalls > 0 =>
                /\ C21_IsTruncationOf(e.item.RawOutput, e.run.output)
                /\ C21_IsTruncationOf(e.sent[2], e.run.output)
    /\ \A i \in 1..Len(stack) :
          /\ C21_Bounded(stack[i].item)
          /\ stack[i].oracleCalls > 0 =>
                StrLen(stack[i].sent[2]) <= maxOutputCharacters
    /\ \A i \in 1..Len(results) : C21_Bounded(results[i])
    /\ mainPc \in {"sink", "done"} =>
          \A i \in 1..Len(report.Items) : C21_Bounded(report.Items[i])

\* a returned tree in which a follow-up printed more than the limit and was
\* judged on, and reported with, exactly maxOutputCharacters of it
C21_Witness ==
    /\ mainPc = "done"
    /\ \E i \in 2..Len(nodeLog) :
          /\ nodeLog[i].calls # <<>>
          /\ HasVerdict(nodeLog[i - 1])
          /\ StrLen(nodeLog[i - 1].run.output) > maxOutputCharacters
          /\ StrLen(nodeLog[i].item.FollowUps[1].RawOutput) = maxOutputCharacters
          /\ StrLen(nodeLog[i - 1].sent[2]) = maxOutputCharacters

(***************************************************************************)
(* C22: under every interleaving of the deadline with the command's end,   *)
(* executeCommand reports a timeout only for a command that was still      *)
(* running when the deadline passed: a command that ended with status 0    *)
(* before the deadline is returned with a nil error and all its output.    *)
(***************************************************************************)
C22_CompletedIsOk ==
    (proc.pc = "returned" /\ proc.doneFirst) =>
        /\ proc.result.err = nil
        /\ proc.result.out = Str("o", proc.written)

====
